---- MODULE Spec2Model ----
(***************************************************************************)
(* The MonadTall / MonadWide tiling layout of qtile/.config/qtile/xmonad.py *)
(* as a state machine.                                                      *)
(*                                                                          *)
(* Numbers.  The program computes with Python floats; the model computes    *)
(* with exact rationals held as integers:                                   *)
(*   - ratio, min_ratio, max_ratio, change_ratio are hundredths (0.5 = 50); *)
(*   - pixel amounts handed to shrink()/grow() are in units of 1/Scale      *)
(*     pixel (they are halved and divided by a number of slaves);           *)
(*   - an entry of relative_sizes is in units of 1/RelDen.                  *)
(* Float rounding noise is therefore not modelled.                          *)
(* Python lists are 0-indexed: the model keeps Python's index values and    *)
(* reads a list l at Python index i as l[i + 1].                            *)
(***************************************************************************)
EXTENDS Integers, Sequences, FiniteSets, TLC

(* ------------------------------ bounds --------------------------------- *)
MaxClients == 4
MaxListClients == 3
MaxResize == 2
MaxRatioClients == 2
MaxOps == 3

(* ------------------------- program constants --------------------------- *)
_left == 0
_right == 1
_med_ratio == 50
border_width == 2
\* margin, were it as wide as a window's two borders
margin_AsBorders == 2 * border_width
margin == 0
default_ratio == 50
min_ratio == 25
max_ratio == 75
min_slave_size == 85
change_ratio == 5
change_size == 20
default_master_length == 1
default_orientation == 0
single_border_width == border_width
single_margin == margin

\* _vert / _hori as each class names them (MonadWide swaps the two values)
Vert(wide) == IF wide THEN 1 ELSE 0
Hori(wide) == IF wide THEN 0 ELSE 1

(* ------------------------------ helpers -------------------------------- *)
Win == 1 .. MaxClients

Max(a, b) == IF a >= b THEN a ELSE b
Min(a, b) == IF a <= b THEN a ELSE b

\* Python int(n / d) for d > 0: truncation toward zero
Trunc(n, d) == IF n >= 0 THEN n \div d ELSE -((-n) \div d)

\* Python n // d for d # 0: floor division
FloorDiv(n, d) == IF d > 0 THEN n \div d ELSE (-n) \div (-d)

RECURSIVE Gcd(_, _)
Gcd(a, b) == IF b = 0 THEN a ELSE Gcd(b, a % b)

Lcm(a, b) == (a * b) \div Gcd(a, b)

RECURSIVE LcmUpTo(_)
LcmUpTo(n) == IF n <= 1 THEN 1 ELSE Lcm(n, LcmUpTo(n - 1))

\* the screen rectangles the host hands to configure: a first monitor at the
\* origin and a second one to its right, set a little lower
Screens ==
    { [x |-> 0, y |-> 0, width |-> 400, height |-> 300],
      [x |-> 400, y |-> 20, width |-> 240, height |-> 400] }

\* screen rectangles without width or without height
ZeroScreens ==
    { [x |-> 0, y |-> 0, width |-> 0, height |-> 300],
      [x |-> 0, y |-> 0, width |-> 400, height |-> 0] }

\* a square monitor at the origin
BigScreen == [x |-> 0, y |-> 0, width |-> 1000, height |-> 1000]

\* the first monitor with a bar 100 pixels wide along its left edge
BarScreen == [x |-> 100, y |-> 0, width |-> 300, height |-> 300]

\* the screen rectangles of the specification of placement
PlaceScreens == Screens \cup {BigScreen, BarScreen}

\* screen_rect = None
NoRect == [x |-> 0, y |-> 0, width |-> -1, height |-> -1]

\* pixel amounts are held in units of 1/Scale pixel
Scale == 2 * LcmUpTo(MaxClients)

\* the widths and heights of the screens other than 0
ScreenExtents ==
    { e \in {r.width : r \in PlaceScreens} \cup {r.height : r \in PlaceScreens} : e > 0 }

RECURSIVE LcmOf(_)
LcmOf(S) == IF S = {} THEN 1 ELSE LET e == CHOOSE e \in S : TRUE IN Lcm(e, LcmOf(S \ {e}))

\* relative sizes are held in units of 1/RelDen
ExtentLcm == LcmOf(ScreenExtents)
RelDen == Scale * ExtentLcm

\* Python l[:k] and l[k:] for any integer k
SliceTo(l, k) ==
    LET n == Len(l)
        e == IF k < 0 THEN Max(0, n + k) ELSE Min(k, n)
    IN  SubSeq(l, 1, e)

SliceFrom(l, k) ==
    LET n == Len(l)
        b == IF k < 0 THEN Max(0, n + k) ELSE Min(k, n)
    IN  SubSeq(l, b + 1, n)

InSeq(e, l) == \E i \in 1 .. Len(l) : l[i] = e

\* Python l.index(e), for e in l
IndexOf(e, l) == (CHOOSE i \in 1 .. Len(l) : l[i] = e /\ \A j \in 1 .. (i - 1) : l[j] # e) - 1

\* geometry of a window that no layout has placed yet
NewWindow == [x |-> 0, y |-> 0, width |-> 0, height |-> 0, borderwidth |-> 0, hidden |-> FALSE]

(* --------------------------- the layout -------------------------------- *)
\* A layout object is a record s with fields
\*   wide                 TRUE for MonadWide, FALSE for MonadTall
\*   new_client_position  configuration: "top", "bottom", "after_current", "before_current"
\*   clients              self.clients.clients
\*   current_index        self.clients.current_index (self.focused)
\*   master_length, ratio, align, orientation, maximized
\*   relative_sizes, do_normalize, screen_rect
\*   win                  the geometry of every window, as window.place left it
\*   error                the exception the operation in progress raised ("none")

\* MonadTall.__init__: the state after construction
\* (do_normalize is not set by __init__; it is only read once relative_sizes
\*  is non-empty, and cmd_normalize has set it by then)
NewLayout(w, pos) ==
    [ wide |-> w, new_client_position |-> pos,
      clients |-> <<>>, current_index |-> 0,
      master_length |-> default_master_length, ratio |-> default_ratio,
      align |-> _left, orientation |-> default_orientation, maximized |-> FALSE,
      relative_sizes |-> <<>>, do_normalize |-> FALSE, screen_rect |-> NoRect,
      win |-> [c \in Win |-> NewWindow], error |-> "none" ]

focused(s) == s.current_index

master_windows(s) == SliceTo(s.clients, s.master_length)

slave_windows(s) == SliceFrom(s.clients, s.master_length)

\* the extent the size conversions use: height for MonadTall, width for MonadWide
Extent(s) == IF s.wide THEN s.screen_rect.width ELSE s.screen_rect.height

\* absolute_size (in 1/Scale pixel) / extent, in units of 1/RelDen; extent # 0
_get_relative_size_from_absolute(s, absolute_size) ==
    absolute_size * (ExtentLcm \div Extent(s))

\* int(relative_size * extent), in pixels
_get_absolute_size_from_relative(s, relative_size) ==
    Trunc(relative_size * Extent(s), RelDen)

\* place, were it to leave width and height as they are handed in
place_KeepingSize(x, y, width, height, borderwidth, mN, mE, mS, mW) ==
    [ x |-> x + mW, y |-> y + mN, width |-> width, height |-> height,
      borderwidth |-> borderwidth ]

\* window.place(x, y, width, height, borderwidth, colour, margin = [N, E, S, W]):
\* the window's x, y, width, height after the margins are taken off
place(x, y, width, height, borderwidth, mN, mE, mS, mW) ==
    [ x |-> x + mW, y |-> y + mN,
      width |-> width - (mE + mW), height |-> height - (mN + mS),
      borderwidth |-> borderwidth ]

\* client.place(...), were x and y offsets from where the window is
Placed_MovingBy(s, client, g) ==
    [s EXCEPT !.win[client] =
        [ x |-> s.win[client].x + g.x, y |-> s.win[client].y + g.y,
          width |-> g.width, height |-> g.height,
          borderwidth |-> g.borderwidth, hidden |-> FALSE ]]

\* client.place(...) followed by client.unhide()
Placed(s, client, g) ==
    [s EXCEPT !.win[client] =
        [ x |-> g.x, y |-> g.y, width |-> g.width, height |-> g.height,
          borderwidth |-> g.borderwidth, hidden |-> FALSE ]]

\* client.hide(), were it to show the window instead
Hidden_Shown(s, client) == [s EXCEPT !.win[client].hidden = FALSE]

\* client.hide()
Hidden(s, client) == [s EXCEPT !.win[client].hidden = TRUE]

\* cmd_normalize(redraw = False)
cmd_normalize_noredraw(s) ==
    LET n == Len(s.clients) - 1
        s1 == IF n > 0 /\ s.screen_rect # NoRect
              THEN [s EXCEPT !.relative_sizes = [i \in 1 .. n |-> RelDen \div n]]
              ELSE s
    IN  [s1 EXCEPT !.do_normalize = FALSE]

\* MonadTall._configure_specific: the geometry client gets
TallConfigureSpecific(s, client, cidx) ==
    LET r == s.screen_rect
        width_master == Trunc(r.width * s.ratio, 100)
        width_slave == r.width - width_master
        isMaster == InSeq(client, master_windows(s))
        xpos == IF s.align = _left
                THEN (IF isMaster THEN r.x ELSE r.x + width_master)
                ELSE (IF isMaster THEN r.x + width_slave - margin ELSE r.x)
    IN  IF InSeq(client, slave_windows(s))
        THEN LET width == width_slave - 2 * border_width
                 height0 == FloorDiv(r.height, Len(slave_windows(s)))
                 ypos0 == r.y + IndexOf(client, SliceFrom(s.clients, s.master_length)) * height0
                 ypos == IF cidx > 1 THEN ypos0 - margin ELSE ypos0
                 height == IF cidx > 1 THEN height0 + margin ELSE height0
             IN  place(xpos, ypos, width, height - 2 * border_width, border_width,
                       margin, margin, margin, margin)
        ELSE LET pos == IndexOf(client, s.clients)
                 vert == s.orientation = Vert(FALSE)
                 height == IF vert THEN FloorDiv(r.height, s.master_length) ELSE r.height
                 width == IF vert THEN width_master ELSE FloorDiv(width_master, s.master_length)
                 ypos == IF vert THEN r.y + pos * height ELSE r.y
                 xpos2 == IF vert THEN xpos
                          ELSE IF s.align = _left THEN r.x + pos * width
                          ELSE r.width - (pos + 1) * width
             IN  place(xpos2, ypos, width, height, border_width,
                       margin, 2 * border_width, margin + 2 * border_width, margin)

\* MonadWide._configure_specific: the geometry client gets
WideConfigureSpecific(s, client, cidx) ==
    LET r == s.screen_rect
        height_master == Trunc(r.height * s.ratio, 100)
        height_slave == r.height - height_master
        isMaster == InSeq(client, master_windows(s))
        ypos == IF s.align = _left
                THEN (IF isMaster THEN r.y ELSE r.y + height_master)
                ELSE (IF isMaster THEN r.y + height_slave - margin ELSE r.y)
    IN  IF InSeq(client, slave_windows(s))
        THEN LET height == height_slave - 2 * border_width
                 width0 == FloorDiv(r.width, Len(slave_windows(s)))
                 xpos0 == r.x + IndexOf(client, SliceFrom(s.clients, s.master_length)) * width0
                 xpos == IF cidx > 1 THEN xpos0 - margin ELSE xpos0
                 width == IF cidx > 1 THEN width0 + margin ELSE width0
             IN  place(xpos, ypos, width - 2 * border_width, height, border_width,
                       margin, margin, margin, margin)
        ELSE LET pos == IndexOf(client, s.clients)
                 hori == s.orientation = Hori(TRUE)
                 width == IF hori THEN FloorDiv(r.width, s.master_length) ELSE r.width
                 height == IF hori THEN height_master ELSE FloorDiv(height_master, s.master_length)
                 xpos == IF hori THEN r.x + pos * width ELSE r.x
                 ypos2 == IF hori THEN ypos
                          ELSE IF s.align = _left THEN r.y + pos * height
                          ELSE (r.y + height_slave + height_master) - (pos + 1) * height
             IN  place(xpos, ypos2, width, height, border_width,
                       margin, margin + 2 * border_width, 2 * border_width, margin)

_configure_specific(s, client, cidx) ==
    IF s.wide THEN WideConfigureSpecific(s, client, cidx)
    ELSE TallConfigureSpecific(s, client, cidx)

\* self.clients.current_client, for a non-empty client list
current_client(s) == s.clients[s.current_index + 1]

\* configure, were a single window to be laid out as a master pane
configure_SingleAsPane(s, client, screen_rect) ==
    LET s1 == [s EXCEPT !.screen_rect = screen_rect]
        s2 == IF s1.relative_sizes = <<>> \/ s1.do_normalize
              THEN cmd_normalize_noredraw(s1) ELSE s1
    IN  IF s2.clients = <<>> \/ ~InSeq(client, s2.clients)
        THEN Hidden(s2, client)
        ELSE IF s2.maximized /\ client # current_client(s2)
        THEN Hidden(s2, client)
        ELSE Placed(s2, client, _configure_specific(s2, client, IndexOf(client, s2.clients)))

\* MonadTall.configure(client, screen_rect)
configure(s, client, screen_rect) ==
    LET s1 == [s EXCEPT !.screen_rect = screen_rect]
        s2 == IF s1.relative_sizes = <<>> \/ s1.do_normalize
              THEN cmd_normalize_noredraw(s1) ELSE s1
    IN  IF s2.clients = <<>> \/ ~InSeq(client, s2.clients)
        THEN Hidden(s2, client)
        ELSE IF Len(s2.clients) = 1 \/ s2.maximized
        THEN IF client = current_client(s2)
             THEN Placed(s2, client,
                         place(s2.screen_rect.x, s2.screen_rect.y,
                               s2.screen_rect.width - 2 * single_border_width,
                               s2.screen_rect.height - 2 * single_border_width,
                               single_border_width,
                               single_margin, single_margin, single_margin, single_margin))
             ELSE Hidden(s2, client)
        ELSE Placed(s2, client, _configure_specific(s2, client, IndexOf(client, s2.clients)))

\* the host's reflow: configure once per window of the layout, in order
RECURSIVE ConfigureFrom(_, _, _)
ConfigureFrom(s, i, screen_rect) ==
    IF i > Len(s.clients) THEN s
    ELSE ConfigureFrom(configure(s, s.clients[i], screen_rect), i + 1, screen_rect)

\* self.group.layout_all(); an exception an operation raised skips the call
layout_all(s, screen_rect) ==
    IF s.error # "none" THEN s ELSE ConfigureFrom(s, 1, screen_rect)

(* ------------------------- the client list ----------------------------- *)
\* list.insert(pos, e) for 0 <= pos <= len
InsertAt(l, pos, e) == SubSeq(l, 1, pos) \o <<e>> \o SubSeq(l, pos + 1, Len(l))

\* del l[idx], were it to fill the hole with the last element
DeleteAt_SwapRemove(l, idx) ==
    [i \in 1 .. (Len(l) - 1) |-> IF i = idx + 1 THEN l[Len(l)] ELSE l[i]]

\* del l[idx]
DeleteAt(l, idx) == SubSeq(l, 1, idx) \o SubSeq(l, idx + 2, Len(l))

\* self.clients.add(client, client_position = p), which focuses the new client
ClientsAdd(s, client) ==
    LET p == s.new_client_position
        off == IF p = "after_current" THEN 1 ELSE 0
        pos == Max(0, s.current_index + off)
        l == IF p = "top" THEN InsertAt(s.clients, 0, client)
             ELSE IF p = "bottom" THEN Append(s.clients, client)
             ELSE IF pos < Len(s.clients) THEN InsertAt(s.clients, pos, client)
             ELSE Append(s.clients, client)
    IN  [s EXCEPT !.clients = l, !.current_index = IndexOf(client, l)]

\* self.clients.remove(client)
ClientsRemove(s, client) ==
    IF ~InSeq(client, s.clients) THEN s
    ELSE LET idx == IndexOf(client, s.clients)
             l == DeleteAt(s.clients, idx)
         IN  [s EXCEPT !.clients = l,
                       !.current_index =
                           IF Len(l) = 0 THEN 0
                           ELSE IF idx <= s.current_index THEN Max(0, s.current_index - 1)
                           ELSE s.current_index]

\* MonadTall.add
add(s, client) == [ClientsAdd(s, client) EXCEPT !.do_normalize = TRUE]

\* MonadTall.remove
remove(s, client) == ClientsRemove([s EXCEPT !.do_normalize = TRUE], client)

\* self.group.focus(client): the layout's focus(client), then a reflow
group_focus(s, client, screen_rect) ==
    IF s.error # "none" THEN s
    ELSE layout_all([s EXCEPT !.current_index = IndexOf(client, s.clients)], screen_rect)

(* ------------------------ normalize and reset -------------------------- *)
\* MonadTall.cmd_normalize(redraw = True): layout_all runs before the flag is cleared
cmd_normalize(s, screen_rect) ==
    LET n == Len(s.clients) - 1
        s1 == IF n > 0 /\ s.screen_rect # NoRect
              THEN [s EXCEPT !.relative_sizes = [i \in 1 .. n |-> RelDen \div n]]
              ELSE s
    IN  [layout_all(s1, screen_rect) EXCEPT !.do_normalize = FALSE]

\* MonadTall.cmd_reset(redraw = True)
cmd_reset(s, screen_rect) ==
    LET s1 == [s EXCEPT !.ratio = _med_ratio]
        s2 == IF s1.align = _right THEN [s1 EXCEPT !.align = _left] ELSE s1
        s3 == IF s2.orientation = Hori(s.wide) THEN [s2 EXCEPT !.align = Vert(s.wide)] ELSE s2
    IN  cmd_normalize(s3, screen_rect)

\* get_shrink_margin, were it not to stop at 0
get_shrink_margin_Unfloored(s, cidx) ==
    _get_absolute_size_from_relative(s, s.relative_sizes[cidx + 1]) - min_slave_size

(* ------------------------------ resizing ------------------------------- *)
\* pixels the slave with size index cidx can still lose
get_shrink_margin(s, cidx) ==
    Max(0, _get_absolute_size_from_relative(s, s.relative_sizes[cidx + 1]) - min_slave_size)

\* relative_sizes[cidx] += relative size of amt (amt in 1/Scale pixel)
AddSize(s, cidx, amt) ==
    [s EXCEPT !.relative_sizes[cidx + 1] = @ + _get_relative_size_from_absolute(s, amt)]

\* shrink, were it to take the whole amount without looking at the margin
shrink_IgnoringMargin(s, cidx, amt) == [s |-> AddSize(s, cidx, -amt), left |-> 0]

\* MonadTall.shrink(cidx, amt): the state after it and the amount it returns
shrink(s, cidx, amt) ==
    LET m == get_shrink_margin(s, cidx) * Scale
    IN  IF amt > m
        THEN [s |-> AddSize(s, cidx, -m), left |-> amt - m]
        ELSE [s |-> AddSize(s, cidx, -amt), left |-> 0]

\* for idx in range(lo, hi): left -= left - self.shrink(idx, left)
RECURSIVE ShrinkInOrder(_, _, _, _)
ShrinkInOrder(s, lo, hi, left) ==
    IF lo >= hi THEN [s |-> s, left |-> left]
    ELSE LET r == shrink(s, lo, left)
         IN  ShrinkInOrder(r.s, lo + 1, hi, left - (left - r.left))

\* for idx in range(lo, hi): left -= per_amt - self.shrink(idx, per_amt)
RECURSIVE ShrinkShares(_, _, _, _, _)
ShrinkShares(s, lo, hi, per_amt, left) ==
    IF lo >= hi THEN [s |-> s, left |-> left]
    ELSE LET r == shrink(s, lo, per_amt)
         IN  ShrinkShares(r.s, lo + 1, hi, per_amt, left - (per_amt - r.left))

shrink_up(s, cidx, amt) == ShrinkInOrder(s, 0, cidx, amt)

shrink_down(s, cidx, amt) == ShrinkInOrder(s, cidx + 1, Len(s.relative_sizes), amt)

shrink_up_shared(s, cidx, amt) ==
    LET r == ShrinkShares(s, 0, cidx, amt \div cidx, amt)
    IN  shrink_up(r.s, cidx, r.left)

shrink_down_shared(s, cidx, amt) ==
    LET n == Len(s.relative_sizes)
        r == ShrinkShares(s, cidx + 1, n, amt \div (n - 1 - cidx), amt)
    IN  shrink_down(r.s, cidx, r.left)

\* _grow_master, were it not to clamp at max_ratio
_grow_master_Unclamped(s, amt) == [s EXCEPT !.ratio = s.ratio + amt]

\* MonadTall._grow_master
_grow_master(s, amt) == [s EXCEPT !.ratio = Min(max_ratio, s.ratio + amt)]

\* _grow_solo_slave, were it not to clamp at min_ratio
_grow_solo_slave_Unclamped(s, amt) == [s EXCEPT !.ratio = s.ratio - amt]

\* MonadTall._grow_solo_slave
_grow_solo_slave(s, amt) == [s EXCEPT !.ratio = Max(min_ratio, s.ratio - amt)]

\* _shrink_master, were it to step by change_size
_shrink_master_ByChangeSize(s, amt) == [s EXCEPT !.ratio = Max(min_ratio, s.ratio - change_size)]

\* MonadTall._shrink_master
_shrink_master(s, amt) == [s EXCEPT !.ratio = Max(min_ratio, s.ratio - amt)]

\* MonadTall._shrink_solo_slave
_shrink_solo_slave(s, amt) == [s EXCEPT !.ratio = Min(max_ratio, s.ratio + amt)]

\* what the slave resizers need: one size per window but the first, and an
\* extent to divide by (a zero extent raises ZeroDivisionError at the first
\* conversion, a missing size raises IndexError; neither changes the state)
ResizeError(s) ==
    IF Len(s.relative_sizes) # Len(s.clients) - 1 THEN "IndexError"
    ELSE IF Extent(s) = 0 THEN "ZeroDivisionError"
    ELSE "none"

\* MonadTall._grow_slave(amt), amt in 1/Scale pixel
_grow_slave(s, amt) ==
    IF ResizeError(s) # "none" THEN [s EXCEPT !.error = ResizeError(s)]
    ELSE
    LET half_change_size == amt \div 2
        idx == focused(s) - 1
        r == IF focused(s) = 1
             THEN LET d == shrink_down_shared(s, 0, amt)
                  IN  [s |-> d.s, left |-> amt - (amt - d.left)]
             ELSE IF focused(s) = Len(s.clients) - 1
             THEN LET u == shrink_up(s, Len(s.relative_sizes) - 1, amt)
                  IN  [s |-> u.s, left |-> amt - (amt - u.left)]
             ELSE LET r1 == shrink_up_shared(s, idx, half_change_size)
                      r2 == shrink_down_shared(r1.s, idx, half_change_size)
                      r3 == shrink_up_shared(r2.s, idx, half_change_size)
                      r4 == shrink_down_shared(r3.s, idx, half_change_size)
                  IN  [s |-> r4.s,
                       left |-> amt - (half_change_size - r1.left)
                                    - (half_change_size - r2.left)
                                    - (half_change_size - r3.left)
                                    - (half_change_size - r4.left)]
        diff == amt - r.left
    IN  AddSize(r.s, focused(s) - 1, diff)

\* MonadTall.grow(cidx, amt)
grow(s, cidx, amt) == AddSize(s, cidx, amt)

\* for idx in range(lo, hi): self.grow(idx, per_amt)
RECURSIVE GrowEach(_, _, _, _)
GrowEach(s, lo, hi, per_amt) ==
    IF lo >= hi THEN s ELSE GrowEach(grow(s, lo, per_amt), lo + 1, hi, per_amt)

grow_up_shared(s, cidx, amt) == GrowEach(s, 0, cidx, amt \div cidx)

grow_down_shared(s, cidx, amt) ==
    LET n == Len(s.relative_sizes)
    IN  GrowEach(s, cidx + 1, n, amt \div (n - 1 - cidx))

\* client.height (MonadTall) or client.width (MonadWide) of the focused client
FocusedClientExtent(s) ==
    LET w == s.win[current_client(s)]
    IN  IF s.wide THEN w.width ELSE w.height

\* _shrink_slave, were it to take the whole amt off the focused slave even
\* where it hands the others the lesser change
_shrink_slave_TakingWholeAmount(s, amt) ==
    IF ResizeError(s) # "none" THEN [s EXCEPT !.error = ResizeError(s)]
    ELSE
    LET size == FocusedClientExtent(s) * Scale
        change == IF size - amt < min_slave_size * Scale
                  THEN size - min_slave_size * Scale ELSE amt
        idx == focused(s) - 1
        s1 == IF focused(s) = 1 THEN grow_down_shared(s, 0, change)
              ELSE IF focused(s) = Len(s.clients) - 1
              THEN grow_up_shared(s, Len(s.relative_sizes) - 1, change)
              ELSE grow_down_shared(grow_up_shared(s, idx, change \div 2), idx, change \div 2)
    IN  AddSize(s1, focused(s) - 1, -amt)

\* MonadTall._shrink_slave(amt) / MonadWide._shrink_slave(amt), amt in 1/Scale pixel
_shrink_slave(s, amt) ==
    IF ResizeError(s) # "none" THEN [s EXCEPT !.error = ResizeError(s)]
    ELSE
    LET size == FocusedClientExtent(s) * Scale
        left == size - amt
        change == IF left < min_slave_size * Scale
                  THEN size - min_slave_size * Scale ELSE amt
        half_change == change \div 2
        idx == focused(s) - 1
        s1 == IF focused(s) = 1 THEN grow_down_shared(s, 0, change)
              ELSE IF focused(s) = Len(s.clients) - 1
              THEN grow_up_shared(s, Len(s.relative_sizes) - 1, change)
              ELSE grow_down_shared(grow_up_shared(s, idx, half_change), idx, half_change)
    IN  AddSize(s1, focused(s) - 1, -change)

\* MonadTall.cmd_grow
cmd_grow(s, screen_rect) ==
    LET s1 == IF focused(s) = 0 THEN _grow_master(s, change_ratio)
              ELSE IF Len(s.clients) = 2 THEN _grow_solo_slave(s, change_ratio)
              ELSE _grow_slave(s, change_size * Scale)
    IN  layout_all(s1, screen_rect)

\* MonadTall.cmd_shrink
cmd_shrink(s, screen_rect) ==
    LET s1 == IF focused(s) = 0 THEN _shrink_master(s, change_ratio)
              ELSE IF Len(s.clients) = 2 THEN _shrink_solo_slave(s, change_ratio)
              ELSE _shrink_slave(s, change_size * Scale)
    IN  layout_all(s1, screen_rect)

\* MonadTall.cmd_grow_master
cmd_grow_master(s, screen_rect) == layout_all(_grow_master(s, change_ratio), screen_rect)

\* MonadTall.cmd_shrink_master
cmd_shrink_master(s, screen_rect) == layout_all(_shrink_master(s, change_ratio), screen_rect)

(* ----------------------- flags and master count ------------------------ *)
\* cmd_maximize, were it to turn maximized on and never off
cmd_maximize_NeverOff(s, screen_rect) ==
    layout_all([s EXCEPT !.maximized = TRUE], screen_rect)

\* MonadTall.cmd_maximize
cmd_maximize(s, screen_rect) ==
    layout_all([s EXCEPT !.maximized = ~s.maximized], screen_rect)

\* cmd_flip, were it to return without asking for the reflow
cmd_flip_WithoutReflow(s, screen_rect) ==
    [s EXCEPT !.align = IF s.align = _right THEN _left ELSE _right]

\* MonadTall.cmd_flip
cmd_flip(s, screen_rect) ==
    layout_all([s EXCEPT !.align = IF s.align = _right THEN _left ELSE _right], screen_rect)

\* cmd_flip_master, were it to toggle align as cmd_flip does
cmd_flip_master_TogglingAlign(s, screen_rect) ==
    layout_all([s EXCEPT !.align = IF s.align = _right THEN _left ELSE _right], screen_rect)

\* MonadTall.cmd_flip_master
cmd_flip_master(s, screen_rect) ==
    layout_all([s EXCEPT !.orientation =
                    IF s.orientation = Hori(s.wide) THEN Vert(s.wide) ELSE Hori(s.wide)],
               screen_rect)

\* MonadTall.cmd_decrease_nmaster
cmd_decrease_nmaster(s, screen_rect) ==
    LET m == s.master_length - 1
    IN  layout_all([s EXCEPT !.master_length = IF m <= 0 THEN 1 ELSE m], screen_rect)

\* MonadTall.cmd_increase_nmaster
cmd_increase_nmaster(s, screen_rect) ==
    LET m == s.master_length + 1
    IN  layout_all([s EXCEPT !.master_length =
                        IF m >= Len(s.clients) - 1 THEN Len(s.clients) - 1 ELSE m],
                   screen_rect)

(* ------------------------------- swapping ------------------------------ *)
\* self.clients.swap, were it to write c1 over c2 and leave c1 where it was
ClientsSwap_Overwriting(s, c1, c2) ==
    LET i2 == IndexOf(c2, s.clients)
    IN  [s EXCEPT !.clients = [s.clients EXCEPT ![i2 + 1] = c1],
                  !.current_index = i2]

\* self.clients.swap(c1, c2, 1): exchange the two, c1 stays the current client
ClientsSwap(s, c1, c2) ==
    LET i1 == IndexOf(c1, s.clients)
        i2 == IndexOf(c2, s.clients)
    IN  [s EXCEPT !.clients = [s.clients EXCEPT ![i1 + 1] = c2, ![i2 + 1] = c1],
                  !.current_index = i2]

\* cmd_swap, were it to focus window2 afterwards
cmd_swap_FocusingSecond(s, window1, window2, screen_rect) ==
    group_focus(layout_all(ClientsSwap(s, window1, window2), screen_rect),
                window2, screen_rect)

\* MonadTall.cmd_swap
cmd_swap(s, window1, window2, screen_rect) ==
    group_focus(layout_all(ClientsSwap(s, window1, window2), screen_rect),
                window1, screen_rect)

\* squared distance between the origins of windows a and b (math.hypot orders alike)
Dist2(s, a, b) ==
    (s.win[a].x - s.win[b].x) * (s.win[a].x - s.win[b].x)
    + (s.win[a].y - s.win[b].y) * (s.win[a].y - s.win[b].y)

\* _get_closest, were it to take the farthest candidate
_get_closest_Farthest(s, w, candidates) ==
    candidates[CHOOSE i \in 1 .. Len(candidates) :
                  \A j \in 1 .. Len(candidates) :
                     Dist2(s, w, candidates[i]) >= Dist2(s, w, candidates[j])]

\* MonadTall._get_closest: min() keeps the first of the closest candidates
_get_closest(s, w, candidates) ==
    candidates[CHOOSE i \in 1 .. Len(candidates) :
                  /\ \A j \in 1 .. Len(candidates) :
                        Dist2(s, w, candidates[i]) <= Dist2(s, w, candidates[j])
                  /\ \A j \in 1 .. (i - 1) :
                        Dist2(s, w, candidates[j]) > Dist2(s, w, candidates[i])]

\* [c for c in self.clients if <c is on the side asked for>], in client order
RECURSIVE Filter(_, _, _, _)
Filter(s, w, side, i) ==
    IF i > Len(s.clients) THEN <<>>
    ELSE LET c == s.clients[i]
             on == IF side = "x<" THEN s.win[c].x < s.win[w].x
                   ELSE IF side = "x>" THEN s.win[c].x > s.win[w].x
                   ELSE IF side = "y<" THEN s.win[c].y < s.win[w].y
                   ELSE s.win[c].y > s.win[w].y
         IN  (IF on THEN <<c>> ELSE <<>>) \o Filter(s, w, side, i + 1)

\* the candidates of cmd_swap_left / cmd_swap_right of the layout's class
Candidates(s, dir) ==
    LET side == IF s.wide THEN (IF dir = "left" THEN "y>" ELSE "y<")
                ELSE (IF dir = "left" THEN "x<" ELSE "x>")
    IN  Filter(s, current_client(s), side, 1)

\* cmd_swap_left / cmd_swap_right: win.x of no window raises AttributeError,
\* min() of no candidate raises ValueError
SwapSide(s, dir, screen_rect) ==
    IF s.clients = <<>> THEN [s EXCEPT !.error = "AttributeError"]
    ELSE IF Candidates(s, dir) = <<>> THEN [s EXCEPT !.error = "ValueError"]
    ELSE cmd_swap(s, current_client(s),
                  _get_closest(s, current_client(s), Candidates(s, dir)), screen_rect)

cmd_swap_left(s, screen_rect) == SwapSide(s, "left", screen_rect)

cmd_swap_right(s, screen_rect) == SwapSide(s, "right", screen_rect)

\* self.clients.shuffle_up(): the current client changes places with the one
\* before it and stays the current client; nothing happens at the head
ClientsShuffleUp(s) ==
    LET idx == s.current_index
    IN  IF idx > 0 /\ idx < Len(s.clients)
        THEN [s EXCEPT !.clients = [s.clients EXCEPT ![idx + 1] = s.clients[idx],
                                                     ![idx] = s.clients[idx + 1]],
                       !.current_index = idx - 1]
        ELSE s

\* self.clients.shuffle_down(): the same with the client after it
ClientsShuffleDown(s) ==
    LET idx == s.current_index
    IN  IF idx + 1 < Len(s.clients)
        THEN [s EXCEPT !.clients = [s.clients EXCEPT ![idx + 1] = s.clients[idx + 2],
                                                     ![idx + 2] = s.clients[idx + 1]],
                       !.current_index = idx + 1]
        ELSE s

\* cmd_shuffle_up, were it to focus the first window afterwards
cmd_shuffle_up_FocusingFirst(s, screen_rect) ==
    LET s1 == layout_all(ClientsShuffleUp(s), screen_rect)
    IN  IF s1.clients = << >> THEN s1
        ELSE group_focus(s1, s1.clients[1], screen_rect)

\* MonadTall.cmd_shuffle_up (group.focus of no window does nothing)
cmd_shuffle_up(s, screen_rect) ==
    LET s1 == layout_all(ClientsShuffleUp(s), screen_rect)
    IN  IF s1.clients = << >> THEN s1
        ELSE group_focus(s1, current_client(s1), screen_rect)

\* MonadTall.cmd_shuffle_down (self.clients[self.focused] of an empty list
\* raises IndexError)
cmd_shuffle_down(s, screen_rect) ==
    LET s1 == layout_all(ClientsShuffleDown(s), screen_rect)
    IN  IF s1.clients = << >> THEN [s1 EXCEPT !.error = "IndexError"]
        ELSE group_focus(s1, s1.clients[focused(s1) + 1], screen_rect)

\* MonadTall.cmd_master (self.clients.index of no window raises ValueError,
\* self.clients[cidx + 1] past the end raises IndexError)
cmd_master(s, screen_rect) ==
    IF s.clients = << >> THEN [s EXCEPT !.error = "ValueError"]
    ELSE LET cidx == IndexOf(current_client(s), s.clients)
         IN  IF cidx < s.master_length - 1
             THEN IF cidx + 1 < Len(s.clients)
                  THEN group_focus(s, s.clients[cidx + 2], screen_rect)
                  ELSE [s EXCEPT !.error = "IndexError"]
             ELSE group_focus(s, s.clients[1], screen_rect)

\* MonadTall.cmd_swap_master (self.clients.index of no window raises
\* ValueError, self.clients[cidx + 1] past the end raises IndexError)
cmd_swap_master(s, screen_rect) ==
    IF s.clients = << >> THEN [s EXCEPT !.error = "ValueError"]
    ELSE LET w == current_client(s)
             cidx == IndexOf(w, s.clients)
         IN  IF cidx < s.master_length - 1
             THEN IF cidx + 1 < Len(s.clients)
                  THEN cmd_swap(s, w, s.clients[cidx + 2], screen_rect)
                  ELSE [s EXCEPT !.error = "IndexError"]
             ELSE cmd_swap(s, w, s.clients[1], screen_rect)

\* cmd_next / cmd_previous (the base layout's next / previous): focus the
\* neighbour in client order, wrapping around, through group.focus
cmd_next(s, screen_rect) ==
    IF s.clients = <<>> THEN s
    ELSE group_focus(s, s.clients[((s.current_index + 1) % Len(s.clients)) + 1], screen_rect)

cmd_previous(s, screen_rect) ==
    IF s.clients = <<>> THEN s
    ELSE group_focus(s, s.clients[((s.current_index + Len(s.clients) - 1) % Len(s.clients)) + 1],
                     screen_rect)

(* ------------------------------ the state ------------------------------ *)
VARIABLES
    wide, new_client_position,      \* which class the layout is, and its configuration
    clients, current_index,         \* self.clients
    master_length, ratio, align, orientation, maximized,
    relative_sizes, do_normalize, screen_rect,
    win,                            \* the windows' geometry
    error,                          \* the exception the last operation raised, or "none"
    screen,                         \* the rectangle the host's screen has
    pending,                        \* the host owes the reflow that follows add / remove
    last,                           \* the last operation
    args,                           \* what the last operation was called with and, for shrink, what it returned
    pre,                            \* the layout before the last operation
    tracked,                        \* whether pre keeps the operation before the last one
    held,                           \* the placements cmd_maximize found as it turned maximized on
    ops_left,                       \* operations the host still runs; below 0 when unbounded
    nresize                         \* slave resizes made so far

vars == << wide, new_client_position, clients, current_index, master_length, ratio,
           align, orientation, maximized, relative_sizes, do_normalize, screen_rect,
           win, error, screen, pending, last, args, pre, tracked, held, ops_left, nresize >>

\* the layout object, as a record
Self ==
    [ wide |-> wide, new_client_position |-> new_client_position,
      clients |-> clients, current_index |-> current_index,
      master_length |-> master_length, ratio |-> ratio,
      align |-> align, orientation |-> orientation, maximized |-> maximized,
      relative_sizes |-> relative_sizes, do_normalize |-> do_normalize,
      screen_rect |-> screen_rect, win |-> win, error |-> "none" ]

\* the part of the layout the history variable pre keeps, and the operation
\* that came before the last one (in the specifications that track it)
Snapshot(s) ==
    [ clients |-> s.clients, current_index |-> s.current_index,
      master_length |-> s.master_length, ratio |-> s.ratio,
      align |-> s.align, orientation |-> s.orientation, maximized |-> s.maximized,
      relative_sizes |-> s.relative_sizes, last |-> "init" ]

\* what held is while the layout is not maximized
NoPlacements == [c \in Win |-> NewWindow]

\* the layout becomes s through operation op
BecomesWith(s, op, windows) ==
    /\ wide' = s.wide
    /\ new_client_position' = s.new_client_position
    /\ clients' = s.clients
    /\ current_index' = s.current_index
    /\ master_length' = s.master_length
    /\ ratio' = s.ratio
    /\ align' = s.align
    /\ orientation' = s.orientation
    /\ maximized' = s.maximized
    /\ relative_sizes' = s.relative_sizes
    /\ do_normalize' = s.do_normalize
    /\ screen_rect' = s.screen_rect
    /\ win' = s.win
    /\ error' = s.error
    /\ last' = op
    /\ args' = windows
    /\ pre' = [Snapshot(Self) EXCEPT !.last = IF tracked THEN last ELSE "init"]
    /\ held' = IF op # "maximize" THEN held ELSE IF maximized THEN NoPlacements ELSE win
    /\ ops_left # 0
    /\ ops_left' = IF ops_left < 0 THEN ops_left ELSE ops_left - 1
    /\ UNCHANGED << screen, tracked >>

\* the layout is s, freshly built
Becomes(s, op) == BecomesWith(s, op, << >>)

Starts(s) ==
    /\ wide = s.wide
    /\ new_client_position = s.new_client_position
    /\ clients = s.clients
    /\ current_index = s.current_index
    /\ master_length = s.master_length
    /\ ratio = s.ratio
    /\ align = s.align
    /\ orientation = s.orientation
    /\ maximized = s.maximized
    /\ relative_sizes = s.relative_sizes
    /\ do_normalize = s.do_normalize
    /\ screen_rect = s.screen_rect
    /\ win = s.win
    /\ error = "none"
    /\ last = "init"
    /\ args = << >>
    /\ pre = Snapshot(s)
    /\ held = NoPlacements
    /\ pending = FALSE
    /\ nresize = 0

(* ------------------------------ the actions ---------------------------- *)
\* the host adds a new window to the layout; it owes a reflow afterwards
\* (windows are interchangeable: the new one takes the lowest free name)
Add(c) ==
    /\ Len(clients) < MaxListClients
    /\ ~InSeq(c, clients)
    /\ \A d \in 1 .. (c - 1) : InSeq(d, clients)
    /\ Becomes(add(Self, c), "add")
    /\ pending' = TRUE
    /\ UNCHANGED nresize

\* the host removes a window from the layout as the window goes away; it owes
\* a reflow afterwards (the name is free for a new window from then on)
Remove(c) ==
    /\ InSeq(c, clients)
    /\ Becomes([remove(Self, c) EXCEPT !.win[c] = NewWindow], "remove")
    /\ pending' = TRUE
    /\ UNCHANGED nresize

\* the host reflows: configure for every window of the layout
Reflow ==
    /\ Becomes(layout_all(Self, screen), "reflow")
    /\ pending' = FALSE
    /\ UNCHANGED nresize

\* the host calls configure for a window the layout does not hold
ConfigureForeign(c) ==
    /\ ~InSeq(c, clients)
    /\ Becomes(configure(Self, c, screen), "configure_foreign")
    /\ UNCHANGED << pending, nresize >>

\* a command of the layout, run by the host once no reflow is owed
Command(s, op) ==
    /\ ~pending
    /\ Becomes(s, op)
    /\ UNCHANGED pending

\* cmd_grow / cmd_shrink reach _grow_slave / _shrink_slave
ResizesSlave == current_index # 0 /\ Len(clients) # 2

CmdGrow ==
    /\ (ResizesSlave /\ ops_left < 0) => nresize < MaxResize
    /\ Command(cmd_grow(Self, screen), "grow")
    /\ nresize' = IF ResizesSlave THEN nresize + 1 ELSE nresize

CmdShrink ==
    /\ (ResizesSlave /\ ops_left < 0) => nresize < MaxResize
    /\ Command(cmd_shrink(Self, screen), "shrink")
    /\ nresize' = IF ResizesSlave THEN nresize + 1 ELSE nresize

CmdGrowMaster == Command(cmd_grow_master(Self, screen), "grow_master") /\ UNCHANGED nresize

CmdShrinkMaster == Command(cmd_shrink_master(Self, screen), "shrink_master") /\ UNCHANGED nresize

CmdNormalize == Command(cmd_normalize(Self, screen), "normalize") /\ UNCHANGED nresize

CmdReset == Command(cmd_reset(Self, screen), "reset") /\ UNCHANGED nresize

CmdFlip == Command(cmd_flip(Self, screen), "flip") /\ UNCHANGED nresize

CmdFlipMaster == Command(cmd_flip_master(Self, screen), "flip_master") /\ UNCHANGED nresize

CmdDecreaseNmaster ==
    Command(cmd_decrease_nmaster(Self, screen), "decrease_nmaster") /\ UNCHANGED nresize

CmdIncreaseNmaster ==
    Command(cmd_increase_nmaster(Self, screen), "increase_nmaster") /\ UNCHANGED nresize

CmdSwapLeft == Command(cmd_swap_left(Self, screen), "swap_left") /\ UNCHANGED nresize

CmdSwapRight == Command(cmd_swap_right(Self, screen), "swap_right") /\ UNCHANGED nresize

CmdMaximize == Command(cmd_maximize(Self, screen), "maximize") /\ UNCHANGED nresize

CmdShuffleUp == Command(cmd_shuffle_up(Self, screen), "shuffle_up") /\ UNCHANGED nresize

CmdShuffleDown == Command(cmd_shuffle_down(Self, screen), "shuffle_down") /\ UNCHANGED nresize

CmdSwapMaster == Command(cmd_swap_master(Self, screen), "swap_master") /\ UNCHANGED nresize

CmdMaster == Command(cmd_master(Self, screen), "master") /\ UNCHANGED nresize

\* cmd_swap with two windows of the layout
CmdSwap(a, b) ==
    /\ InSeq(a, clients)
    /\ InSeq(b, clients)
    /\ ~pending
    /\ BecomesWith(cmd_swap(Self, a, b, screen), "swap", << a, b >>)
    /\ UNCHANGED << pending, nresize >>

\* self.shrink(cidx, amt) as the slave resizers call it: on a slave that has a
\* size, with an amount of 1/Scale pixels
Shrink(cidx, amt) ==
    /\ cidx < Len(relative_sizes)
    /\ Extent(Self) # 0
    /\ ~pending
    /\ LET r == shrink(Self, cidx, amt)
       IN  BecomesWith(r.s, "shrink_call", << cidx, amt, r.left >>)
    /\ UNCHANGED << pending, nresize >>

CmdNext == Command(cmd_next(Self, screen), "next") /\ UNCHANGED nresize

CmdPrevious == Command(cmd_previous(Self, screen), "previous") /\ UNCHANGED nresize

(* --------------------------- specifications ---------------------------- *)
\* a layout of n windows, added one by one and reflowed
RECURSIVE Built(_, _, _)
Built(s, n, r) == IF n = 0 THEN s ELSE layout_all(add(Built(s, n - 1, r), n), r)

\* Spec: resizing.  A layout of any class on any screen, holding 0 .. MaxClients
\* windows, under focus changes, cmd_grow, cmd_shrink and cmd_normalize.
Init ==
    \E w \in BOOLEAN, r \in Screens, n \in 0 .. MaxClients :
        /\ screen = r
        /\ tracked = FALSE
        /\ ops_left = -1
        /\ Starts(Built(NewLayout(w, "top"), n, r))

Next ==
    \/ CmdNext
    \/ CmdPrevious
    \/ CmdGrow
    \/ CmdShrink
    \/ CmdNormalize

Spec == Init /\ [][Next]_vars

\* SpecFlags: ratio, alignment and orientation.  A layout of any class holding
\* 0 .. MaxClients windows, under the commands that set those three.
NextFlags ==
    \/ CmdFlip
    \/ CmdFlipMaster
    \/ CmdGrowMaster
    \/ CmdShrinkMaster
    \/ CmdReset

SpecFlags == Init /\ [][NextFlags]_vars

\* SpecList: the client list.  A new layout of any class, with the insertion
\* policy config.py leaves at its default, to which the host adds and from
\* which it removes windows, under the commands that change the master count
\* or swap windows.

InitList ==
    \E w \in BOOLEAN, r \in Screens :
        /\ screen = r
        /\ tracked = FALSE
        /\ ops_left = -1
        /\ Starts(NewLayout(w, "top"))

NextList ==
    \/ \E c \in Win : Add(c)
    \/ \E c \in Win : Remove(c)
    \/ Reflow
    \/ CmdNext
    \/ CmdIncreaseNmaster
    \/ CmdDecreaseNmaster
    \/ CmdSwapLeft
    \/ CmdSwapRight

SpecList == InitList /\ [][NextList]_vars

\* SpecPlace: placement.  A layout of any class on any screen, the square one
\* included, holding 0 .. MaxClients windows, under the commands that set the
\* ratio, the alignment, the orientation and the master count, and cmd_normalize.
InitPlace ==
    \E w \in BOOLEAN, r \in PlaceScreens, n \in 0 .. MaxClients :
        /\ screen = r
        /\ tracked = FALSE
        /\ ops_left = -1
        /\ Starts(Built(NewLayout(w, "top"), n, r))

NextPlace ==
    \/ CmdFlip
    \/ CmdFlipMaster
    \/ CmdGrowMaster
    \/ CmdShrinkMaster
    \/ CmdIncreaseNmaster
    \/ CmdDecreaseNmaster
    \/ CmdNormalize

SpecPlace == InitPlace /\ [][NextPlace]_vars

\* SpecMax: the maximized mode.  A layout of any class holding 0 .. MaxClients
\* windows, under cmd_maximize, focus changes, cmd_flip and cmd_grow_master.
InitMax ==
    \E w \in BOOLEAN, r \in Screens, n \in 0 .. MaxClients :
        /\ screen = r
        /\ tracked = TRUE
        /\ ops_left = -1
        /\ Starts(Built(NewLayout(w, "top"), n, r))

NextMax ==
    \/ CmdMaximize
    \/ CmdNext
    \/ CmdFlip
    \/ CmdGrowMaster

SpecMax == InitMax /\ [][NextMax]_vars

\* SpecRatio: the ratio.  A layout of any class holding 0 .. MaxRatioClients
\* windows, under focus changes, cmd_grow and cmd_shrink.
InitRatio ==
    \E w \in BOOLEAN, r \in Screens, n \in 0 .. MaxRatioClients :
        /\ screen = r
        /\ tracked = TRUE
        /\ ops_left = -1
        /\ Starts(Built(NewLayout(w, "top"), n, r))

NextRatio ==
    \/ CmdNext
    \/ CmdGrow
    \/ CmdShrink

SpecRatio == InitRatio /\ [][NextRatio]_vars

\* SpecOrder: the order of the client list.  A new layout of any class and any
\* insertion policy, to which the host adds and from which it removes windows,
\* under focus changes.
Positions == {"top", "bottom", "after_current", "before_current"}

InitOrder ==
    \E w \in BOOLEAN, r \in Screens, p \in Positions :
        /\ screen = r
        /\ tracked = TRUE
        /\ ops_left = -1
        /\ Starts(NewLayout(w, p))

NextOrder ==
    \/ \E c \in Win : Add(c)
    \/ \E c \in Win : Remove(c)
    \/ Reflow
    \/ CmdNext

SpecOrder == InitOrder /\ [][NextOrder]_vars

\* SpecForeign: windows of other layouts.  A new layout of any class, to which
\* the host adds and from which it removes windows, and for which it also calls
\* configure with windows the layout does not hold.
NextForeign ==
    \/ \E c \in Win : Add(c)
    \/ \E c \in Win : Remove(c)
    \/ Reflow
    \/ \E c \in Win : ConfigureForeign(c)

SpecForeign == InitList /\ [][NextForeign]_vars

\* SpecZero: a screen of no size.  A layout of any class holding 0 .. MaxClients
\* windows on a screen without width or without height, under focus changes,
\* cmd_grow, cmd_shrink and cmd_normalize.
InitZero ==
    \E w \in BOOLEAN, r \in ZeroScreens, n \in 0 .. MaxClients :
        /\ screen = r
        /\ tracked = FALSE
        /\ ops_left = -1
        /\ Starts(Built(NewLayout(w, "top"), n, r))

SpecZero == InitZero /\ [][Next]_vars

\* Every operation the host can run on a layout
NextAll ==
    \/ \E c \in Win : Add(c)
    \/ \E c \in Win : Remove(c)
    \/ Reflow
    \/ CmdGrow
    \/ CmdShrink
    \/ CmdGrowMaster
    \/ CmdShrinkMaster
    \/ CmdNormalize
    \/ CmdReset
    \/ CmdMaximize
    \/ CmdFlip
    \/ CmdFlipMaster
    \/ CmdShuffleUp
    \/ CmdShuffleDown
    \/ \E a, b \in Win : CmdSwap(a, b)
    \/ CmdIncreaseNmaster
    \/ CmdDecreaseNmaster

\* Built layouts of both classes, and a host that runs MaxOps operations
InitAll ==
    \E w \in BOOLEAN, r \in Screens, n \in 0 .. MaxListClients :
        /\ screen = r
        /\ tracked = FALSE
        /\ ops_left = MaxOps
        /\ Starts(Built(NewLayout(w, "top"), n, r))

SpecAll == InitAll /\ [][NextAll]_vars

\* Moving the focused window through the list
NextShuffle ==
    \/ CmdShuffleUp
    \/ CmdShuffleDown
    \/ CmdNext
    \/ CmdPrevious

SpecShuffle == Init /\ [][NextShuffle]_vars

\* Swapping windows, in layouts whose focus, master count and side vary
NextSwap ==
    \/ CmdSwapLeft
    \/ CmdSwapRight
    \/ \E a, b \in Win : CmdSwap(a, b)
    \/ CmdNext
    \/ CmdFlip
    \/ CmdIncreaseNmaster

InitSwap ==
    \E w \in BOOLEAN, r \in Screens, n \in 0 .. MaxListClients :
        /\ screen = r
        /\ tracked = FALSE
        /\ ops_left = -1
        /\ Starts(Built(NewLayout(w, "top"), n, r))

SpecSwap == InitSwap /\ [][NextSwap]_vars

\* Focusing the masters while windows come and go and the master count changes
NextMaster ==
    \/ \E c \in Win : Add(c)
    \/ \E c \in Win : Remove(c)
    \/ Reflow
    \/ CmdIncreaseNmaster
    \/ CmdDecreaseNmaster
    \/ CmdMaster
    \/ CmdSwapMaster
    \/ CmdNext

SpecMaster == InitList /\ [][NextMaster]_vars

\* Flipping the layout at several ratios and master counts
NextFlip ==
    \/ CmdFlip
    \/ CmdFlipMaster
    \/ CmdGrowMaster
    \/ CmdIncreaseNmaster

SpecFlip == InitMax /\ [][NextFlip]_vars

\* Reflow passes of the host between the operations that change what a pass places
InitReflow ==
    \E w \in BOOLEAN, r \in Screens :
        /\ screen = r
        /\ tracked = TRUE
        /\ ops_left = -1
        /\ Starts(NewLayout(w, "top"))

NextReflow ==
    \/ \E c \in Win : Add(c)
    \/ \E c \in Win : Remove(c)
    \/ Reflow
    \/ CmdMaximize

SpecReflow == InitReflow /\ [][NextReflow]_vars

\* Built layouts of 3 and more windows, and a host that runs one operation
\* more than MaxOps: a change of focus and enough cmd_grow to have the other
\* slaves reach their floor
InitGrown ==
    \E w \in BOOLEAN, r \in Screens, n \in 3 .. MaxClients :
        /\ screen = r
        /\ tracked = FALSE
        /\ ops_left = MaxOps + 1
        /\ Starts(Built(NewLayout(w, "top"), n, r))

NextGrown ==
    \/ CmdNext
    \/ CmdPrevious
    \/ CmdGrow

SpecGrown == InitGrown /\ [][NextGrown]_vars

\* Every command that resizes, with the focus anywhere
NextResize ==
    \/ CmdNext
    \/ CmdGrow
    \/ CmdShrink
    \/ CmdGrowMaster
    \/ CmdShrinkMaster

SpecResize == Init /\ [][NextResize]_vars

\* Every command that reorders the windows, at several master counts
NextPermute ==
    \/ CmdShuffleUp
    \/ CmdShuffleDown
    \/ \E a, b \in Win : CmdSwap(a, b)
    \/ CmdSwapLeft
    \/ CmdSwapRight
    \/ CmdSwapMaster
    \/ CmdIncreaseNmaster

SpecPermute == InitSwap /\ [][NextPermute]_vars

\* the amounts shrink is called with: nothing, change_size, and the half and
\* the third of it that the shared shrinks hand on
ShrinkAmounts ==
    { 0, change_size * Scale, (change_size * Scale) \div 2, (change_size * Scale) \div 3 }

\* MaxOps calls of shrink on the built layouts
InitShrink ==
    \E w \in BOOLEAN, r \in Screens, n \in 0 .. MaxClients :
        /\ screen = r
        /\ tracked = FALSE
        /\ ops_left = MaxOps
        /\ Starts(Built(NewLayout(w, "top"), n, r))

NextShrink == \E cidx \in 0 .. (MaxClients - 2), amt \in ShrinkAmounts : Shrink(cidx, amt)

SpecShrink == InitShrink /\ [][NextShrink]_vars

(* ------------------------------- claims -------------------------------- *)
\* the absolute size, in pixels, of the slave with size index i - 1
AbsSize(i) == _get_absolute_size_from_relative(Self, relative_sizes[i])

\* the same before the last operation
PreAbsSize(i) == _get_absolute_size_from_relative(Self, pre.relative_sizes[i])

\* a normalized size vector gives every slave at least min_slave_size pixels
NormalizedFits ==
    /\ Len(clients) >= 2
    /\ _get_absolute_size_from_relative(Self, RelDen \div (Len(clients) - 1)) >= min_slave_size

\* C1 (as claimed): with at least 2 slaves, starting from a normalized size
\* vector whose sizes are all >= min_slave_size, no sequence of cmd_grow and
\* cmd_shrink brings a slave's absolute size below min_slave_size.
C1_MinSlaveSizeIsFloor ==
    (Len(clients) >= 3 /\ NormalizedFits /\ Len(relative_sizes) = Len(clients) - 1)
        => \A i \in 1 .. Len(relative_sizes) : AbsSize(i) >= min_slave_size

\* the relative size of px whole pixels
RelOfPixels(px) == _get_relative_size_from_absolute(Self, px * Scale)

\* cmd_grow acts on a focused middle slave whose neighbours can all give change_size
MiddleGrowWithAmpleMargins ==
    /\ ~pending
    /\ current_index > 1
    /\ current_index < Len(clients) - 1
    /\ Len(relative_sizes) = Len(clients) - 1
    /\ \A i \in 1 .. Len(relative_sizes) :
          i # current_index => get_shrink_margin(Self, i - 1) >= change_size
    /\ last' = "grow"

\* C8 (as claimed): cmd_grow on a focused middle slave with ample margins
\* around it grows that slave by exactly change_size, half of it taken in equal
\* shares from the slaves above and half in equal shares from those below.
C8_MiddleGrowsByChangeSize ==
    [][MiddleGrowWithAmpleMargins =>
        /\ relative_sizes'[current_index] =
              relative_sizes[current_index] + RelOfPixels(change_size)
        /\ \A i \in 1 .. (current_index - 1) :
              relative_sizes'[i] = relative_sizes[i]
                  - _get_relative_size_from_absolute(
                        Self, (change_size * Scale) \div (2 * (current_index - 1)))
        /\ \A i \in (current_index + 1) .. Len(relative_sizes) :
              relative_sizes'[i] = relative_sizes[i]
                  - _get_relative_size_from_absolute(
                        Self, (change_size * Scale)
                                  \div (2 * (Len(relative_sizes) - current_index)))
      ]_vars

\* cmd_grow acts on the first slave of three whose two lower neighbours
\* cannot give change_size between them
FirstOfThreeGrowsShort ==
    /\ ~pending
    /\ Len(clients) = 4
    /\ master_length = 1
    /\ current_index = 1
    /\ Len(relative_sizes) = 3
    /\ get_shrink_margin(Self, 1) + get_shrink_margin(Self, 2) < change_size
    /\ last' = "grow"

\* the focused first slave gains exactly what slaves 2 and 3 could give
GainsWhatWasReclaimed ==
    relative_sizes'[1] = relative_sizes[1]
        + RelOfPixels(get_shrink_margin(Self, 1) + get_shrink_margin(Self, 2))

\* C9 (as claimed): the first slave of three grows by exactly the combined
\* shrink margin of the two slaves below it, and each of those two ends at
\* min_slave_size.
C9_Original ==
    [][FirstOfThreeGrowsShort =>
        /\ GainsWhatWasReclaimed
        /\ \A i \in 2 .. 3 :
              _get_absolute_size_from_relative(Self, relative_sizes'[i]) = min_slave_size
      ]_vars

\* C9 (amended): the first slave of three grows by exactly the combined shrink
\* margin of the two slaves below it; each of those two ends at min_slave_size
\* if it was at least that large, and keeps its size if it was already smaller.
C9_GrowsByReclaimedAmount ==
    [][FirstOfThreeGrowsShort =>
        /\ GainsWhatWasReclaimed
        /\ \A i \in 2 .. 3 :
              IF AbsSize(i) >= min_slave_size
              THEN _get_absolute_size_from_relative(Self, relative_sizes'[i]) = min_slave_size
              ELSE relative_sizes'[i] = relative_sizes[i]
      ]_vars

\* C9 witness: a first slave of three has grown by a reclaimed amount that is
\* more than nothing and less than change_size.
C9_Witness ==
    /\ last = "grow"
    /\ error = "none"
    /\ Len(clients) = 4
    /\ current_index = 1
    /\ pre.current_index = 1
    /\ Len(pre.relative_sizes) = 3
    /\ LET m == Max(0, PreAbsSize(2) - min_slave_size) + Max(0, PreAbsSize(3) - min_slave_size)
       IN  /\ 0 < m
           /\ m < change_size
           /\ relative_sizes[1] = pre.relative_sizes[1] + RelOfPixels(m)
    /\ AbsSize(2) = min_slave_size
    /\ AbsSize(3) = min_slave_size

\* C10: with focus on index 0, cmd_grow sets ratio to min(max_ratio, ratio +
\* change_ratio) and cmd_shrink sets it to max(min_ratio, ratio - change_ratio);
\* relative_sizes, the client order and the master count stay as they were.
C10_MasterResizeOnlyMovesRatio ==
    [][(~pending /\ current_index = 0 /\ last' \in {"grow", "shrink"}) =>
        /\ last' = "grow" => ratio' = Min(max_ratio, ratio + change_ratio)
        /\ last' = "shrink" => ratio' = Max(min_ratio, ratio - change_ratio)
        /\ UNCHANGED << relative_sizes, clients, master_length >>
      ]_vars

\* C10 witness: cmd_grow on the focused master has been clamped at max_ratio
\* while slaves of unequal sizes kept their sizes.
C10_Witness ==
    /\ last = "grow"
    /\ current_index = 0
    /\ pre.current_index = 0
    /\ pre.ratio = max_ratio
    /\ ratio = max_ratio
    /\ Len(relative_sizes) >= 2
    /\ relative_sizes[1] # relative_sizes[2]
    /\ relative_sizes = pre.relative_sizes

\* multi-pane mode, after the reflow that follows every operation
MultiPane == Len(clients) >= 2 /\ ~maximized /\ ~pending

\* the extent of window c along the axis the slaves are stacked on, borders
\* included, and its position on that axis
StackExtent(c) ==
    IF wide THEN win[c].width + 2 * win[c].borderwidth
    ELSE win[c].height + 2 * win[c].borderwidth

StackPos(c) == IF wide THEN win[c].x ELSE win[c].y

StackOrigin == IF wide THEN screen_rect.x ELSE screen_rect.y

RECURSIVE StackExtentsBefore(_)
StackExtentsBefore(k) ==
    IF k <= 1 THEN 0 ELSE StackExtentsBefore(k - 1) + StackExtent(clients[k])

\* C2 (as claimed): in multi-pane mode every slave is given the extent its
\* entry of relative_sizes stands for, at the position the extents of the
\* slaves before it add up to, so slaves with different entries get different
\* extents.  (One master: the slave at client index k has size index k - 1.)
C2_SlaveExtentsFollowRelativeSizes ==
    (MultiPane /\ master_length = 1 /\ Len(relative_sizes) = Len(clients) - 1) =>
        /\ \A k \in 1 .. Len(relative_sizes) :
              /\ StackExtent(clients[k + 1]) = AbsSize(k)
              /\ StackPos(clients[k + 1]) = StackOrigin + StackExtentsBefore(k)
        /\ \A j, k \in 1 .. Len(relative_sizes) :
              relative_sizes[j] # relative_sizes[k]
                  => StackExtent(clients[j + 1]) # StackExtent(clients[k + 1])

\* the size vector cmd_normalize makes for n slaves
EqualShares(n) == [i \in 1 .. n |-> RelDen \div n]

\* C3 (as claimed): after cmd_reset the ratio is 0.5, the alignment is left / up
\* (0), the master orientation is its default, and the size vector holds equal
\* shares.
C3_ResetRestoresDefaults ==
    [][(~pending /\ last' = "reset") =>
        /\ ratio' = _med_ratio
        /\ align' = _left
        /\ orientation' = default_orientation
        /\ Len(clients) >= 2 => relative_sizes' = EqualShares(Len(clients) - 1)
      ]_vars

\* C4 (as claimed): after an add or a remove and the configure calls that
\* follow it, relative_sizes has one entry per slave window, also when a single
\* window is left.  (Stated for a master count still at its default.)
C4_SizesMatchSlavesAfterAddRemove ==
    [][(last \in {"add", "remove"} /\ last' = "reflow" /\ clients # << >>
            /\ master_length = default_master_length) =>
        Len(relative_sizes') = Len(SliceFrom(clients', master_length'))
      ]_vars

\* C5 (as claimed): after cmd_increase_nmaster or cmd_decrease_nmaster and the
\* configure calls it makes, relative_sizes has one entry per slave window.
\* (Stated for a layout of at least 3 windows whose sizes matched its slaves
\* before the command.)
C5_SizesMatchSlavesAfterNmaster ==
    [][(/\ ~pending
        /\ Len(clients) >= 3
        /\ Len(relative_sizes) = Len(slave_windows(Self))
        /\ last' \in {"increase_nmaster", "decrease_nmaster"}) =>
        Len(relative_sizes') = Len(SliceFrom(clients', master_length'))
      ]_vars

\* the master count is within its bounds for n windows
MasterCountInRange(m, n) == m >= 1 /\ (n >= 2 => m <= n - 1)

\* C6 (as claimed): for every window count, 0 and 1 included,
\* cmd_increase_nmaster and cmd_decrease_nmaster keep the master count >= 1
\* and, with at least 2 windows, <= the window count - 1, and leave it alone at
\* either bound.
C6_MasterCountStaysInRange ==
    [][(/\ ~pending
        /\ MasterCountInRange(master_length, Len(clients))
        /\ last' \in {"increase_nmaster", "decrease_nmaster"}) =>
        /\ MasterCountInRange(master_length', Len(clients))
        /\ (last' = "decrease_nmaster" /\ master_length = 1) => master_length' = 1
        /\ (last' = "increase_nmaster" /\ Len(clients) >= 2
                /\ master_length = Len(clients) - 1) => master_length' = master_length
      ]_vars

\* C7 (as claimed): with no window strictly on the side asked for,
\* cmd_swap_left and cmd_swap_right raise no error and leave the client order,
\* the focus, the ratio and relative_sizes as they were.
C7_SwapWithoutCandidateIsNoOp ==
    [][(/\ ~pending
        /\ clients # << >>
        /\ \/ last' = "swap_left" /\ Candidates(Self, "left") = << >>
           \/ last' = "swap_right" /\ Candidates(Self, "right") = << >>) =>
        /\ error' = "none"
        /\ UNCHANGED << clients, current_index, ratio, relative_sizes >>
      ]_vars

\* C11: with exactly 2 windows and the focus on the slave, cmd_grow lowers ratio
\* by change_ratio, not below min_ratio, and cmd_shrink raises it by
\* change_ratio, not above max_ratio; neither touches relative_sizes.
C11_SoloSlaveResizeMovesRatioInversely ==
    [][(/\ ~pending
        /\ Len(clients) = 2
        /\ current_index = 1
        /\ last' \in {"grow", "shrink"}) =>
        /\ last' = "grow" => ratio' = Max(min_ratio, ratio - change_ratio)
        /\ last' = "shrink" => ratio' = Min(max_ratio, ratio + change_ratio)
        /\ UNCHANGED relative_sizes
      ]_vars

\* C11 witness: cmd_grow on the only slave, called again and again, has been
\* stopped at min_ratio and has left the one relative size alone.
C11_Witness ==
    /\ last = "grow"
    /\ pre.last = "grow"
    /\ Len(clients) = 2
    /\ current_index = 1
    /\ pre.current_index = 1
    /\ pre.ratio = min_ratio
    /\ ratio = min_ratio
    /\ relative_sizes = pre.relative_sizes
    /\ Len(relative_sizes) = 1

\* C12: with the focus on the master, cmd_grow then cmd_shrink, and cmd_shrink
\* then cmd_grow, bring ratio back to what it was whenever neither step is
\* clamped.  (pre is the layout before the first step, the state the layout
\* after it, the primed state the layout after the second.)
C12_MasterGrowShrinkAreInverse ==
    [][(/\ ~pending
        /\ pre.current_index = 0
        /\ current_index = 0
        /\ \/ last = "grow" /\ last' = "shrink" /\ pre.ratio + change_ratio <= max_ratio
           \/ last = "shrink" /\ last' = "grow" /\ pre.ratio - change_ratio >= min_ratio) =>
        ratio' = pre.ratio
      ]_vars

\* C12 witness: cmd_shrink has undone an unclamped cmd_grow on the master.
C12_Witness ==
    /\ last = "shrink"
    /\ pre.last = "grow"
    /\ pre.current_index = 0
    /\ current_index = 0
    /\ clients # << >>
    /\ pre.ratio < max_ratio
    /\ pre.ratio > default_ratio
    /\ ratio = pre.ratio - change_ratio

\* the geometry of a window that fills the screen but for the single-window border
FullScreen ==
    [ x |-> screen.x, y |-> screen.y,
      width |-> screen.width - 2 * single_border_width,
      height |-> screen.height - 2 * single_border_width,
      borderwidth |-> single_border_width, hidden |-> FALSE ]

\* cmd_maximize turns maximized on in a layout of at least 2 windows
MaximizeTurnsOn ==
    ~pending /\ Len(clients) >= 2 /\ ~maximized /\ last' = "maximize"

\* cmd_maximize turns maximized off right after it was turned on
MaximizeTurnsOffAgain ==
    ~pending /\ Len(clients) >= 2 /\ maximized /\ last = "maximize" /\ last' = "maximize"

C14_SingleWindowFillsScreen ==
    (~pending /\ Len(clients) = 1) => win[clients[1]] = FullScreen

\* C14 witness: a layout's only window fills the second monitor while the
\* ratio is at its maximum, the master is on the right and the orientation is
\* flipped.
C14_Witness ==
    /\ ~pending
    /\ Len(clients) = 1
    /\ screen.x > 0
    /\ ratio = max_ratio
    /\ align = _right
    /\ orientation # default_orientation
    /\ last = "flip_master"
    /\ win[clients[1]] = FullScreen

\* the screen's extent along the axis that splits master band from slave band
SplitFull == IF wide THEN screen.height ELSE screen.width

\* the extent of window c along that axis, borders included, and its position
SplitExtent(c) ==
    IF wide THEN win[c].height + 2 * win[c].borderwidth
    ELSE win[c].width + 2 * win[c].borderwidth

SplitPos(c) == IF wide THEN win[c].y ELSE win[c].x

\* int(ratio x extent)
MasterBand == Trunc(SplitFull * ratio, 100)

\* the master windows sit one after the other along the split axis
MastersAlongSplit == orientation # default_orientation

\* the master windows fill the master band: each spans it when they sit side
\* by side across it, each is given an equal whole share of it when they sit
\* one after the other along it
MastersFillBand ==
    \A i \in 1 .. master_length :
        SplitExtent(clients[i]) =
            IF MastersAlongSplit THEN FloorDiv(MasterBand, master_length) ELSE MasterBand

\* every slave window spans what the master band leaves of the split axis
SlavesTakeRemainder ==
    \A i \in (master_length + 1) .. Len(clients) :
        SplitExtent(clients[i]) = SplitFull - MasterBand

\* the scenario of the claim: MonadTall, one master on the left, ratio 0.5,
\* 3 windows on the square screen
SquareScenario ==
    /\ MultiPane
    /\ ~wide
    /\ screen = BigScreen
    /\ Len(clients) = 3
    /\ master_length = 1
    /\ ratio = 50
    /\ align = _left

\* the master spans x in [0, 500], the two slaves span x in [500, 1000] and
\* are 500 high each, borders included, one above the other
SquareScenarioPlacement ==
    /\ win[clients[1]].x = 0
    /\ win[clients[1]].x + SplitExtent(clients[1]) = 500
    /\ \A i \in 2 .. 3 :
          /\ win[clients[i]].x = 500
          /\ win[clients[i]].x + SplitExtent(clients[i]) = 1000
          /\ StackExtent(clients[i]) = 500
          /\ win[clients[i]].y = (i - 2) * 500

\* C15: in multi-pane mode the master band is int(ratio x extent) of the split
\* axis, the master windows filling it, and every slave window spans exactly
\* the remainder; in the scenario of the square screen the master spans
\* x in [0, 500] and the two slaves are 500-high bands within x in [500, 1000].
C15_BandsSplitByRatio ==
    MultiPane =>
        /\ MastersFillBand
        /\ SlavesTakeRemainder
        /\ SquareScenario => SquareScenarioPlacement

\* C15 witness: the scenario of the square screen, reached again after the
\* ratio had been moved away from 0.5.
C15_Witness ==
    /\ SquareScenario
    /\ pre.ratio # 50
    /\ last = "shrink_master"
    /\ SquareScenarioPlacement

\* window c, its border included, lies inside the screen rectangle
InsideScreen(c) ==
    /\ win[c].x >= screen.x
    /\ win[c].y >= screen.y
    /\ win[c].x + win[c].width + 2 * win[c].borderwidth <= screen.x + screen.width
    /\ win[c].y + win[c].height + 2 * win[c].borderwidth <= screen.y + screen.height

\* C16 (as claimed): in multi-pane mode, on every screen, every window is
\* placed inside the screen rectangle, its border included, and the extents of
\* master band and slave band along the split axis add up to no more than the
\* screen's.
C16_PlacementsStayInsideScreen ==
    MultiPane =>
        /\ \A i \in 1 .. Len(clients) : InsideScreen(clients[i])
        /\ \A i \in 1 .. master_length, j \in (master_length + 1) .. Len(clients) :
              SplitExtent(clients[i]) + SplitExtent(clients[j]) <= SplitFull

C18_NormalizeGivesOneShareEachSlave ==
    [][(/\ ~pending
        /\ screen_rect # NoRect
        /\ MasterCountInRange(master_length, Len(clients))
        /\ last' = "normalize") =>
        IF Len(slave_windows(Self)) >= 1
        THEN relative_sizes' = EqualShares(Len(slave_windows(Self)))
        ELSE UNCHANGED relative_sizes
      ]_vars

\* the windows of list l
WindowsOf(l) == {l[i] : i \in 1 .. Len(l)}

\* C19: under every insertion policy, add of a window the layout does not hold
\* yet, followed at once by remove of that window, leaves the client order as
\* it was before the add.  (pre is the layout before the add.)
C19_AddThenRemoveRestoresOrder ==
    [][(/\ last = "add"
        /\ last' = "remove"
        /\ WindowsOf(clients') = WindowsOf(pre.clients)) =>
        clients' = pre.clients
      ]_vars

\* C19 witness: a window added after the current one, between two others, has
\* been removed again at once.
C19_Witness ==
    /\ last = "remove"
    /\ pre.last = "add"
    /\ new_client_position = "after_current"
    /\ Len(pre.clients) = 3
    /\ pre.current_index = 1
    /\ clients = << pre.clients[1], pre.clients[3] >>

\* the layout after the first configure call of the reflow that is owed
AfterFirstConfigure == configure(Self, clients[1], screen)

\* C20 (as claimed): after add or remove, the first configure call of the
\* reflow sets relative_sizes to equal shares, one per slave window, and clears
\* do_normalize; the configure calls that follow in the same reflow leave
\* relative_sizes as the first one made it.  (Stated for a master count still
\* at its default.)
C20_FirstConfigureRenormalizes ==
    [][(/\ last \in {"add", "remove"}
        /\ last' = "reflow"
        /\ clients # << >>
        /\ master_length = default_master_length) =>
        /\ AfterFirstConfigure.relative_sizes = EqualShares(Len(clients) - master_length)
        /\ ~AfterFirstConfigure.do_normalize
        /\ relative_sizes' = AfterFirstConfigure.relative_sizes
        /\ ~do_normalize'
      ]_vars

\* configure for a window the layout does not hold hides that window and
\* neither places nor shows it, and leaves the other windows alone
HidesForeignWindow ==
    \E c \in Win :
        /\ ~InSeq(c, clients)
        /\ win' = [win EXCEPT ![c].hidden = TRUE]

\* the configure call finds a renormalization due
RenormalizationDue == relative_sizes = << >> \/ do_normalize

\* C21 (as claimed): configure for a window that is not in the client list,
\* the empty list included, hides it, never places or shows it, and leaves the
\* client order, the focus, ratio and relative_sizes as they were.
C21_Original ==
    [][last' = "configure_foreign" =>
        /\ HidesForeignWindow
        /\ UNCHANGED << clients, current_index, ratio, relative_sizes >>
      ]_vars

\* C21 (amended): configure for a window that is not in the client list hides
\* it, never places or shows it, and leaves the client order, the focus and
\* ratio as they were; relative_sizes stays as it was unless a renormalization
\* is due (do_normalize set, or relative_sizes empty) in a layout of two or
\* more windows, and then it becomes equal shares, one per window but the
\* first; do_normalize is cleared when a renormalization was due.
C21_ForeignWindowIsHidden ==
    [][last' = "configure_foreign" =>
        /\ HidesForeignWindow
        /\ UNCHANGED << clients, current_index, ratio >>
        /\ relative_sizes' =
              IF RenormalizationDue /\ Len(clients) >= 2
              THEN EqualShares(Len(clients) - 1)
              ELSE relative_sizes
        /\ RenormalizationDue => ~do_normalize'
      ]_vars

\* C21 witness: configure for a window of another layout has hidden it and,
\* a renormalization being due after an add, has replaced the size vector.
C21_Witness ==
    /\ last = "configure_foreign"
    /\ Len(clients) = 3
    /\ pre.clients = clients
    /\ pre.relative_sizes # relative_sizes
    /\ relative_sizes = EqualShares(2)
    /\ \E c \in Win : ~InSeq(c, clients) /\ win[c].hidden

\* C22 (as claimed): on a screen rectangle of width 0 or height 0 no operation,
\* configure, cmd_grow and cmd_shrink on a slave with peers and cmd_normalize
\* among them, raises an error.
C22_ZeroScreenRaisesNoError ==
    (screen.width = 0 \/ screen.height = 0) => error = "none"

\* The placements are those a reflow of the present state gives: a reflow
\* pass would change nothing
Settled == layout_all(Self, screen) = Self

MutatingOperations ==
    { "add", "remove", "grow", "shrink", "grow_master", "shrink_master", "normalize",
      "reset", "maximize", "flip", "flip_master", "shuffle_up", "shuffle_down", "swap",
      "increase_nmaster", "decrease_nmaster" }

\* C23 as stated: every mutating operation, add and remove included, has
\* requested the reflow of its new state when it returns
C23_Original == last \in MutatingOperations => Settled

\* add and remove request no reflow: they mark the sizes stale, and while a
\* window is left the reflow is still to come
LeavesReflowToHost ==
    /\ do_normalize
    /\ clients # << >> => ~Settled

\* C23: every cmd_ operation has requested the reflow of its new state when
\* it returns; add and remove request none and leave it to the host
C23_CommandsRequestReflow ==
    /\ last \in MutatingOperations \ { "add", "remove" } => Settled
    /\ last \in { "add", "remove" } => LeavesReflowToHost

C23_Witness ==
    /\ last = "flip"
    /\ Len(clients) = 3
    /\ pre.align # align
    /\ Settled
    /\ \E c \in Win : InSeq(c, clients) /\ win[c].x # screen.x

\* clients with the entries at the 0-based indices i and j exchanged
Exchanged(i, j) ==
    [k \in 1 .. Len(clients) |->
        IF k = i + 1 THEN clients[j + 1] ELSE IF k = j + 1 THEN clients[i + 1] ELSE clients[k]]

\* C24: cmd_shuffle_up (cmd_shuffle_down) exchanges the focused window with
\* its predecessor (successor) and the focus index moves with it; at the first
\* (last) position the order and the focus stay, without wrap-around
C24_ShuffleExchangesWithNeighbour ==
    [][clients # << >> =>
        /\ last' = "shuffle_up" =>
              /\ error' = "none"
              /\ IF current_index > 0
                  THEN /\ clients' = Exchanged(current_index, current_index - 1)
                       /\ current_index' = current_index - 1
                  ELSE UNCHANGED << clients, current_index >>
        /\ last' = "shuffle_down" =>
              /\ error' = "none"
              /\ IF current_index < Len(clients) - 1
                  THEN /\ clients' = Exchanged(current_index, current_index + 1)
                       /\ current_index' = current_index + 1
                  ELSE UNCHANGED << clients, current_index >>]_vars

C24_Witness ==
    /\ last = "shuffle_up"
    /\ Len(clients) = MaxClients
    /\ pre.current_index = 2
    /\ current_index = 1
    /\ clients[2] = pre.clients[3]
    /\ clients[3] = pre.clients[2]

\* the windows strictly on the side a swap asks for: smaller / larger x in
\* MonadTall; in MonadWide cmd_swap_left takes the windows below ("to the
\* down") and cmd_swap_right those above
OnSide(op) ==
    LET f == clients[current_index + 1]
    IN  { c \in Win :
            /\ InSeq(c, clients)
            /\ IF wide
               THEN IF op = "swap_left" THEN win[c].y > win[f].y ELSE win[c].y < win[f].y
               ELSE IF op = "swap_left" THEN win[c].x < win[f].x ELSE win[c].x > win[f].x }

\* squared distance between the origins of the focused window and c
OriginDistance2(c) ==
    LET f == clients[current_index + 1]
        dx == win[c].x - win[f].x
        dy == win[c].y - win[f].y
    IN  dx * dx + dy * dy

\* C25: cmd_swap_left / cmd_swap_right exchange the focused window with a
\* window of least origin distance among those strictly on the side asked
\* for, and with no other window
C25_SwapTakesClosestOnSide ==
    [][(/\ last' \in { "swap_left", "swap_right" }
        /\ clients # << >>
        /\ OnSide(last') # {}) =>
          \E t \in OnSide(last') :
             /\ \A c \in OnSide(last') : OriginDistance2(t) <= OriginDistance2(c)
             /\ clients' = Exchanged(current_index, IndexOf(t, clients))
             /\ error' = "none"]_vars

C25_Witness ==
    /\ last = "swap_left"
    /\ ~wide
    /\ Len(clients) = 3
    /\ master_length = 2
    /\ pre.current_index = 2
    /\ current_index = 0
    /\ clients[1] = pre.clients[3]
    /\ clients[3] = pre.clients[1]

\* C26: cmd_swap(a, b) exchanges the positions of a and b and leaves every
\* other position as it was; afterwards a is the focused window (that the
\* reflow of the new order was requested is what C23 states of "swap")
C26_SwapExchangesAndFocusesFirst ==
    [][last' = "swap" =>
        LET a == args'[1]
            b == args'[2]
        IN  /\ clients' = Exchanged(IndexOf(a, clients), IndexOf(b, clients))
            /\ clients'[current_index' + 1] = a
            /\ error' = "none"]_vars

C26_Witness ==
    /\ last = "swap"
    /\ Len(clients) = 3
    /\ args = << pre.clients[3], pre.clients[1] >>
    /\ pre.current_index = 1
    /\ current_index = 0
    /\ clients = << pre.clients[3], pre.clients[2], pre.clients[1] >>

\* C27: cmd_master moves the focus cyclically through the masters: from the
\* master at index i < master_length - 1 to index i + 1, from the last master
\* or a slave to index 0, so that repeated calls stay within the masters
C27_MasterCyclesThroughMasters ==
    [][(last' = "master" /\ clients # << >> /\ master_length >= 1) =>
        /\ error' = "none"
        /\ current_index' = IF current_index < master_length - 1
                            THEN current_index + 1 ELSE 0
        /\ InSeq(clients'[current_index' + 1], master_windows(Self))]_vars

\* what neither flip may touch
FlipFrame == << ratio, relative_sizes, clients, master_length >>

\* the layout is again as it was before the operation before the last one
BackBeforeLastTwo ==
    /\ align' = pre.align
    /\ orientation' = pre.orientation
    /\ ratio' = pre.ratio
    /\ relative_sizes' = pre.relative_sizes
    /\ clients' = pre.clients
    /\ master_length' = pre.master_length

\* C28: cmd_flip toggles align only and cmd_flip_master orientation only;
\* each leaves the other flag, ratio, relative_sizes, client order and master
\* count as they were, and either applied twice restores the state
C28_FlipsToggleOneFlag ==
    [][/\ last' = "flip" =>
            /\ align' # align
            /\ align' \in { _left, _right }
            /\ UNCHANGED << orientation, FlipFrame >>
            /\ last = "flip" => BackBeforeLastTwo
       /\ last' = "flip_master" =>
            /\ orientation' # orientation
            /\ orientation' \in { Vert(wide), Hori(wide) }
            /\ UNCHANGED << align, FlipFrame >>
            /\ last = "flip_master" => BackBeforeLastTwo]_vars

C28_Witness ==
    /\ last = "flip_master"
    /\ pre.last = "flip_master"
    /\ Len(clients) = 3
    /\ master_length = 2
    /\ align = _right
    /\ ratio # default_ratio
    /\ orientation = default_orientation

\* C29: a reflow pass that follows a reflow pass on the same screen, with no
\* operation between, issues the calls the first one issued - every window
\* keeps its geometry and visibility - and leaves ratio, relative_sizes,
\* client order and flags as they were
C29_ReflowIsIdempotent ==
    [][(last = "reflow" /\ last' = "reflow") =>
        UNCHANGED << win, ratio, relative_sizes, clients, current_index, master_length,
                     align, orientation, maximized, do_normalize, screen_rect,
                     error >>]_vars

C29_Witness ==
    /\ last = "reflow"
    /\ pre.last = "reflow"
    /\ Len(clients) = 3
    /\ maximized
    /\ \E c \in Win : InSeq(c, clients) /\ win[c].hidden
    /\ \E c \in Win : InSeq(c, clients) /\ ~win[c].hidden /\ win[c].width > 0

\* cmd_shrink acts on a focused slave that has peers and is not below the minimum
ShrinksSlaveWithPeers ==
    /\ last' = "shrink"
    /\ Len(clients) >= 3
    /\ current_index >= 1
    /\ Len(relative_sizes) = Len(clients) - 1
    /\ AbsSize(current_index) >= min_slave_size

\* C30: cmd_shrink on a focused slave with peers stops at the minimum: the
\* slave's relative_sizes entry never comes to stand for fewer than
\* min_slave_size pixels, and once it stands for min_slave_size a further
\* cmd_shrink leaves relative_sizes as it is
C30_ShrinkStopsAtMinimum ==
    [][ShrinksSlaveWithPeers =>
        /\ _get_absolute_size_from_relative(Self, relative_sizes'[current_index])
              >= min_slave_size
        /\ AbsSize(current_index) = min_slave_size => relative_sizes' = relative_sizes
      ]_vars

\* cmd_grow acts on a focused slave whose peers all have shrink margin 0
GrowsAmongSlavesAtFloor ==
    /\ last' = "grow"
    /\ Len(clients) >= 3
    /\ current_index >= 1
    /\ Len(relative_sizes) = Len(clients) - 1
    /\ \A i \in 1 .. Len(relative_sizes) :
          i # current_index => get_shrink_margin(Self, i - 1) = 0

\* C31: when every slave but the focused one has shrink margin 0, cmd_grow on
\* the focused slave - first, middle or last - leaves relative_sizes unchanged
C31_GrowAmongSlavesAtFloorChangesNothing ==
    [][GrowsAmongSlavesAtFloor => relative_sizes' = relative_sizes /\ error' = "none"]_vars

\* a first slave has been asked to grow while its two peers stood at exactly
\* min_slave_size
C31_Witness ==
    /\ last = "grow"
    /\ error = "none"
    /\ Len(clients) = 4
    /\ current_index = 1
    /\ pre.current_index = 1
    /\ pre.relative_sizes = relative_sizes
    /\ AbsSize(2) = min_slave_size
    /\ AbsSize(3) = min_slave_size
    /\ AbsSize(1) > min_slave_size

\* the sum of a sequence of sizes
RECURSIVE SumOf(_)
SumOf(l) == IF l = << >> THEN 0 ELSE Head(l) + SumOf(Tail(l))

\* C32: from normalized sizes of 2 and more entries, no sequence of cmd_grow
\* and cmd_shrink on slaves changes the sum of relative_sizes: it stays 1
\* (RelDen units of 1/RelDen)
C32_SlaveResizesKeepTheSum ==
    Len(relative_sizes) >= 2 => SumOf(relative_sizes) = RelDen

C32_Witness ==
    /\ last = "shrink"
    /\ error = "none"
    /\ Len(clients) = 4
    /\ current_index = 2
    /\ pre.current_index = 2
    /\ Len(pre.relative_sizes) = 3
    /\ relative_sizes[2] < pre.relative_sizes[2]
    /\ relative_sizes[1] > pre.relative_sizes[1]
    /\ relative_sizes[3] > pre.relative_sizes[3]
    /\ SumOf(relative_sizes) = RelDen

\* C33: ratio starts within [min_ratio, max_ratio] and stays there through
\* every sequence of cmd_grow, cmd_shrink, cmd_grow_master and
\* cmd_shrink_master, whatever the focus and the number of windows
C33_RatioStaysInBand == min_ratio <= ratio /\ ratio <= max_ratio

\* cmd_grow_master was asked to go past max_ratio
C33_Witness ==
    /\ last = "grow_master"
    /\ Len(clients) = 3
    /\ current_index = 2
    /\ pre.ratio = max_ratio
    /\ ratio = max_ratio

\* the rectangles of windows a and b, borders included, have a point in common
Overlap(a, b) ==
    /\ win[a].x < win[b].x + win[b].width + 2 * win[b].borderwidth
    /\ win[b].x < win[a].x + win[a].width + 2 * win[a].borderwidth
    /\ win[a].y < win[b].y + win[b].height + 2 * win[b].borderwidth
    /\ win[b].y < win[a].y + win[a].height + 2 * win[a].borderwidth

\* C34: in multi-pane mode with margin 0, for every alignment, master
\* orientation, master count within [1, window count - 1] and screen, no two
\* windows a reflow pass places get overlapping rectangles, borders included
C34_PanesDoNotOverlap ==
    (MultiPane /\ MasterCountInRange(master_length, Len(clients))) =>
        \A i, j \in 1 .. Len(clients) : i < j => ~Overlap(clients[i], clients[j])

ReorderingCommands ==
    { "shuffle_up", "shuffle_down", "swap", "swap_left", "swap_right", "swap_master" }

\* l holds every window k holds, as often as k holds it
PermutationOf(l, k) ==
    /\ Len(l) = Len(k)
    /\ \A c \in Win : Cardinality({ i \in 1 .. Len(l) : l[i] = c })
                          = Cardinality({ i \in 1 .. Len(k) : k[i] = c })

\* C35: cmd_shuffle_up, cmd_shuffle_down, cmd_swap, cmd_swap_left / right and
\* cmd_swap_master never add, drop or duplicate a window: the client list
\* afterwards is a permutation of the list before, and ratio, relative_sizes
\* and the master count are as they were
C35_ReorderingKeepsTheWindows ==
    [][last' \in ReorderingCommands =>
        /\ PermutationOf(clients', clients)
        /\ UNCHANGED << ratio, relative_sizes, master_length >>]_vars

\* cmd_swap_master has brought a focused slave to the head of the list
C35_Witness ==
    /\ last = "swap_master"
    /\ error = "none"
    /\ Len(clients) = 3
    /\ pre.current_index = 2
    /\ current_index = 0
    /\ clients = << pre.clients[3], pre.clients[2], pre.clients[1] >>
    /\ master_length = 2
    /\ Len(relative_sizes) = 2

\* C36: in every state add, remove and the master-count commands lead to,
\* cmd_master and cmd_swap_master on a layout of at least one window index
\* only positions the client list has: neither fails with an out-of-range
\* access
C36_MasterCommandsStayInRange ==
    (last \in { "master", "swap_master" } /\ clients # << >>) => error # "IndexError"

\* the pixels, in 1/Scale pixel, that slave i is left to give: its whole
\* pixels above min_slave_size
MarginOf(i) == Max(0, AbsSize(i) - min_slave_size) * Scale

\* C37: shrink(cidx, amt) with amt >= 0 takes exactly min(amt, margin) pixels
\* off slave cidx, margin being max(0, absolute size - min_slave_size),
\* returns max(0, amt - margin), and changes no other entry of relative_sizes
C37_ShrinkTakesWhatTheMarginAllows ==
    [][last' = "shrink_call" =>
        LET i == args'[1] + 1
            amt == args'[2]
        IN  /\ (relative_sizes[i] - relative_sizes'[i]) * Extent(Self) * Scale
                  = Min(amt, MarginOf(i)) * RelDen
            /\ args'[3] = Max(0, amt - MarginOf(i))
            /\ Len(relative_sizes') = Len(relative_sizes)
            /\ \A j \in 1 .. Len(relative_sizes) :
                  j # i => relative_sizes'[j] = relative_sizes[j]]_vars

\* shrink was asked for change_size of a slave that had less than that to
\* give, took what there was and returned the rest
C37_Witness ==
    /\ last = "shrink_call"
    /\ Len(relative_sizes) = 3
    /\ args[1] = 1
    /\ args[2] = change_size * Scale
    /\ args[3] > 0
    /\ args[3] < change_size * Scale
    /\ AbsSize(2) = min_slave_size
    /\ relative_sizes[2] < pre.relative_sizes[2]

====
